---- MODULE Spec2Model ----
(***************************************************************************)
(* Model of lnhistoryclient/parser/common.py: the binary-field decoders    *)
(* of the Lightning gossip client (message type detection, type prefix     *)
(* stripping, address parsing over an io.BytesIO stream, alias decoding    *)
(* and short-channel-id formatting).                                       *)
(*                                                                         *)
(* Bytes are integers 0..255, byte strings are sequences of bytes, text    *)
(* strings are sequences of code points.  An io.BytesIO stream is the pair *)
(* (buf, pos).  A call's outcome is a record [kind, val] with kind         *)
(* "value" (returned val), "none" (returned None) or "raise" (raised, val  *)
(* names the exception class).                                             *)
(***************************************************************************)
EXTENDS Integers, Sequences, FiniteSets, TLC

VARIABLES buf, pos, input, call, ret

vars == <<buf, pos, input, call, ret>>

----------------------------------------------------------------------------
(* Bounds of the explored inputs *)

MaxLead == 1
MaxTrail == 1
MaxHost == 2
MaxRead == 2
MaxCalls == 2

(* Program constants *)

IPV4_LEN == 4
IPV6_LEN == 16
TORV2_LEN == 10
TORV3_LEN == 35
PORT_LEN == 2

----------------------------------------------------------------------------
(* Generic helpers *)

Min(a, b) == IF a < b THEN a ELSE b

Rep(x, n) == [i \in 1..n |-> x]

RECURSIVE Pow2(_)
Pow2(n) == IF n = 0 THEN 1 ELSE 2 * Pow2(n - 1)

(* struct.unpack(">H", two bytes) / int.from_bytes(.., "big") *)
UnpackBE16(two) == two[1] * 256 + two[2]

(* str(n) for n >= 0: the decimal digits as code points *)
RECURSIVE DecStr(_)
DecStr(n) == IF n < 10 THEN <<48 + n>> ELSE DecStr(n \div 10) \o <<48 + (n % 10)>>

HexDigit(d) == IF d < 10 THEN 48 + d ELSE 97 + (d - 10)

(* format(n, "x"): lowercase hex without leading zeros *)
RECURSIVE HexStr(_)
HexStr(n) == IF n < 16 THEN <<HexDigit(n)>> ELSE HexStr(n \div 16) \o <<HexDigit(n % 16)>>

NoneRet == [kind |-> "none", val |-> <<>>]
Value(v) == [kind |-> "value", val |-> v]
Raise(e) == [kind |-> "raise", val |-> e]

----------------------------------------------------------------------------
(* io.BytesIO.read(n), n >= 0: the bytes from pos, at most n, and the new  *)
(* position, advanced by the number of bytes returned.                     *)
BytesIORead(b, p, n) ==
    LET avail == IF p < Len(b) THEN Len(b) - p ELSE 0
        k == Min(n, avail)
    IN [data |-> SubSeq(b, p + 1, p + k), pos |-> p + k]

(* read_exact(b, n): ok with the n bytes, or not ok (ValueError); either   *)
(* way pos is where b.read left the stream.                                *)
ReadExact(b, p, n) ==
    LET r == BytesIORead(b, p, n)
    IN [ok |-> Len(r.data) = n, data |-> r.data, pos |-> r.pos]

(* AddressType(type_id): a record of the id and its name; it is built for  *)
(* every id, the unknown ones included.                                    *)
AddressType(type_id) ==
    [id |-> type_id,
     name |-> CASE type_id = 1 -> "IPv4"
                [] type_id = 2 -> "IPv6"
                [] type_id = 3 -> "Torv2"
                [] type_id = 4 -> "Torv3"
                [] type_id = 5 -> "DNS"
                [] OTHER -> "Unknown"]

(* str(ipaddress.IPv4Address(raw)): dotted decimal *)
IPv4Text(raw) ==
    DecStr(raw[1]) \o <<46>> \o DecStr(raw[2]) \o <<46>> \o DecStr(raw[3]) \o <<46>> \o DecStr(raw[4])

RECURSIVE JoinHextets(_, _, _)
JoinHextets(h, from, to) ==
    IF from > to THEN <<>>
    ELSE IF from = to THEN HexStr(h[from])
    ELSE HexStr(h[from]) \o <<58>> \o JoinHextets(h, from + 1, to)

(* str(ipaddress.IPv6Address(raw)): the eight hextets in lowercase hex,    *)
(* the first longest run of two or more zero hextets replaced by "::".     *)
IPv6Text(raw) ==
    LET h == [i \in 1..8 |-> raw[2 * i - 1] * 256 + raw[2 * i]]
        RunLen(s) == IF h[s] # 0 \/ (s > 1 /\ h[s - 1] = 0) THEN 0
                     ELSE CHOOSE n \in 1..(9 - s) :
                            /\ \A j \in s..(s + n - 1) : h[j] = 0
                            /\ (s + n > 8 \/ h[s + n] # 0)
        best == IF \A s \in 1..8 : RunLen(s) < 2 THEN 0
                ELSE CHOOSE s \in 1..8 :
                       /\ RunLen(s) >= 2
                       /\ \A t \in 1..8 : RunLen(t) < RunLen(s) \/ (RunLen(t) = RunLen(s) /\ t >= s)
    IN IF best = 0 THEN JoinHextets(h, 1, 8)
       ELSE JoinHextets(h, 1, best - 1) \o <<58, 58>> \o JoinHextets(h, best + RunLen(best), 8)

(* to_base_32(addr): Base32 without padding, lowercase *)
ToBase32(addr) ==
    LET nbits == 8 * Len(addr)
        Bit(j) == IF j >= nbits THEN 0
                  ELSE (addr[(j \div 8) + 1] \div Pow2(7 - (j % 8))) % 2
        nchars == (nbits + 4) \div 5
        Sym(k) == 16 * Bit(5 * k) + 8 * Bit(5 * k + 1) + 4 * Bit(5 * k + 2)
                  + 2 * Bit(5 * k + 3) + Bit(5 * k + 4)
        Chr(v) == IF v < 26 THEN 97 + v ELSE 50 + (v - 26)
    IN [k \in 1..nchars |-> Chr(Sym(k - 1))]

DotOnion == <<46, 111, 110, 105, 111, 110>>

(* bytes.decode("ascii"): fails on any byte >= 0x80 *)
AsciiDecode(bs) ==
    IF \E i \in 1..Len(bs) : bs[i] >= 128 THEN [ok |-> FALSE, text |-> <<>>]
    ELSE [ok |-> TRUE, text |-> bs]

(* The except branch of parse_address: seek back, return None *)
ExceptHandlerNoSeek(pos_before, pos_now) == [ret |-> NoneRet, pos |-> pos_now]

ExceptHandler(pos_before, pos_now) == [ret |-> NoneRet, pos |-> pos_before]

(* (a.port,) = struct.unpack("!H", read_exact(b, 2)) and return a *)
ReadPortLE(b, pos_before, p, typ, addr) ==
    LET r == ReadExact(b, p, PORT_LEN)
    IN IF ~r.ok THEN ExceptHandler(pos_before, r.pos)
       ELSE [ret |-> Value([typ |-> typ, addr |-> addr, port |-> r.data[2] * 256 + r.data[1]]),
             pos |-> r.pos]

ReadPort(b, pos_before, p, typ, addr) ==
    LET r == ReadExact(b, p, PORT_LEN)
    IN IF ~r.ok THEN ExceptHandler(pos_before, r.pos)
       ELSE [ret |-> Value([typ |-> typ, addr |-> addr, port |-> UnpackBE16(r.data)]),
             pos |-> r.pos]

(* One fixed-length branch: raw = read_exact(b, n); a.addr = render(raw); port *)
IPv4Branch(b, pos_before, p, typ) ==
    LET r == ReadExact(b, p, IPV4_LEN)
    IN IF ~r.ok THEN ExceptHandler(pos_before, r.pos)
       ELSE ReadPort(b, pos_before, r.pos, typ, IPv4Text(r.data))

IPv6Branch(b, pos_before, p, typ) ==
    LET r == ReadExact(b, p, IPV6_LEN)
    IN IF ~r.ok THEN ExceptHandler(pos_before, r.pos)
       ELSE ReadPort(b, pos_before, r.pos, typ, <<91>> \o IPv6Text(r.data) \o <<93>>)

TorBranch(b, pos_before, p, typ, n) ==
    LET r == ReadExact(b, p, n)
    IN IF ~r.ok THEN ExceptHandler(pos_before, r.pos)
       ELSE ReadPort(b, pos_before, r.pos, typ, ToBase32(r.data) \o DotOnion)

DnsBranch(b, pos_before, p, typ) ==
    LET l == ReadExact(b, p, 1)
    IN IF ~l.ok THEN ExceptHandler(pos_before, l.pos)
       ELSE LET hostname_len == l.data[1]
                r == ReadExact(b, l.pos, hostname_len)
            IN IF ~r.ok THEN ExceptHandler(pos_before, r.pos)
               ELSE LET hostname == AsciiDecode(r.data)
                    IN IF ~hostname.ok THEN ExceptHandler(pos_before, r.pos)
                       ELSE ReadPort(b, pos_before, r.pos, typ, hostname.text)

(* parse_address(b): the outcome and the stream position it leaves *)
ParseAddress(b, p) ==
    LET pos_before == p
        t == ReadExact(b, p, 1)
    IN IF ~t.ok THEN ExceptHandler(pos_before, t.pos)
       ELSE LET type_id == t.data[1]
                typ == AddressType(type_id)
            IN CASE type_id = 1 -> IPv4Branch(b, pos_before, t.pos, typ)
                 [] type_id = 2 -> IPv6Branch(b, pos_before, t.pos, typ)
                 [] type_id = 3 -> TorBranch(b, pos_before, t.pos, typ, TORV2_LEN)
                 [] type_id = 4 -> TorBranch(b, pos_before, t.pos, typ, TORV3_LEN)
                 [] type_id = 5 -> DnsBranch(b, pos_before, t.pos, typ)
                 [] OTHER -> [ret |-> NoneRet, pos |-> t.pos]

----------------------------------------------------------------------------
(* The streams a caller hands in: an address record of a type byte 0..6,   *)
(* its payload filled with one byte value, a port, cut at any length, with *)
(* bytes already consumed before it and bytes following it.                *)

FillBytes == {1, 97, 128}
Ports == {<<0, 80>>, <<1, 2>>, <<255, 255>>}
TypeBytes == 0..6

RecordBytes(t, fill, n, port) ==
    CASE t = 2 -> <<t>> \o Rep(fill, IPV6_LEN) \o port
      [] t = 3 -> <<t>> \o Rep(fill, TORV2_LEN) \o port
      [] t = 4 -> <<t>> \o Rep(fill, TORV3_LEN) \o port
      [] t = 5 -> <<t, n>> \o Rep(fill, n) \o port
      [] OTHER -> <<t>> \o Rep(fill, IPV4_LEN) \o port

Streams ==
    { [buf |-> Rep(fill, lead) \o SubSeq(RecordBytes(t, fill, n, port) \o Rep(fill, trail), 1, k),
       pos |-> lead] :
        <<t, fill, n, port, lead, trail, k>> \in
            { x \in TypeBytes \X FillBytes \X (0..MaxHost) \X Ports \X (0..MaxLead)
                    \X (0..MaxTrail) \X (0..(TORV3_LEN + PORT_LEN + 1 + MaxTrail)) :
                /\ x[7] <= Len(RecordBytes(x[1], x[2], x[3], x[4])) + x[6]
                /\ (x[1] # 5 => x[3] = 0) } }

NoCall == [op |-> "none", pos_before |-> 0, n |-> 0, count |-> 0, prev |-> <<>>]

Init ==
    /\ \E s \in Streams : buf = s.buf /\ pos = s.pos
    /\ input = <<>>
    /\ call = NoCall
    /\ ret = NoneRet

ParseAddressCall ==
    /\ call.count < MaxCalls
    /\ LET r == ParseAddress(buf, pos)
       IN /\ pos' = r.pos
          /\ ret' = r.ret
    /\ call' = [op |-> "parse_address", pos_before |-> pos, n |-> 0,
                count |-> call.count + 1, prev |-> <<>>]
    /\ UNCHANGED <<buf, input>>

ReadExactCall ==
    /\ call.count < MaxCalls
    /\ \E n \in 0..MaxRead :
        LET r == ReadExact(buf, pos, n)
        IN /\ pos' = r.pos
           /\ ret' = IF r.ok THEN Value(r.data) ELSE Raise("ValueError")
           /\ call' = [op |-> "read_exact", pos_before |-> pos, n |-> n,
                      count |-> call.count + 1, prev |-> <<>>]
    /\ UNCHANGED <<buf, input>>

Next == ParseAddressCall \/ ReadExactCall

Spec == Init /\ [][Next]_vars

----------------------------------------------------------------------------
(* Message type detection and prefix stripping *)

MaxMsgLen == 5

(* The two known-type sets of lnhistoryclient.constants: the BOLT #7       *)
(* gossip types and the Core Lightning extension types.                    *)
LIGHTNING_TYPES == {256, 257, 258}
CORE_LIGHTNING_TYPES == {4096, 4097}

(* get_message_type_by_raw_hex(raw_hex) *)
GetMessageTypeCoreOnly(raw_hex) ==
    IF Len(raw_hex) < 2 THEN Raise("ValueError")
    ELSE LET msg_type == UnpackBE16(SubSeq(raw_hex, 1, 2))
         IN IF msg_type \in CORE_LIGHTNING_TYPES THEN Value(msg_type) ELSE NoneRet

GetMessageTypeByRawHex(raw_hex) ==
    IF Len(raw_hex) < 2 THEN Raise("ValueError")
    ELSE LET msg_type == UnpackBE16(SubSeq(raw_hex, 1, 2))
         IN IF msg_type \in LIGHTNING_TYPES \/ msg_type \in CORE_LIGHTNING_TYPES
            THEN Value(msg_type)
            ELSE NoneRet

(* strip_known_message_type(data): the body of the try, then the except    *)
(* that re-raises whatever was raised as a ValueError.                     *)
StripLightningOnly(data) ==
    IF Len(data) < 2 THEN Raise("ValueError")
    ELSE IF UnpackBE16(SubSeq(data, 1, 2)) \in LIGHTNING_TYPES
    THEN Value(SubSeq(data, 3, Len(data)))
    ELSE Value(data)

StripAlways(data) ==
    IF Len(data) < 2 THEN Raise("ValueError") ELSE Value(SubSeq(data, 3, Len(data)))

StripKnownMessageType(data) ==
    LET body == IF Len(data) < 2 THEN Raise("ValueError")
                ELSE LET known_types == LIGHTNING_TYPES \cup CORE_LIGHTNING_TYPES
                         prefix == UnpackBE16(SubSeq(data, 1, 2))
                     IN IF prefix \in known_types
                        THEN Value(SubSeq(data, 3, Len(data)))
                        ELSE Value(data)
    IN IF body.kind = "raise" THEN Raise("ValueError") ELSE body

MsgBytes == {0, 1, 2, 16, 255}

RECURSIVE SeqsUpTo(_, _)
SeqsUpTo(S, n) ==
    IF n = 0 THEN {<<>>}
    ELSE LET shorter == SeqsUpTo(S, n - 1)
         IN shorter \cup {Append(s, x) : s \in {t \in shorter : Len(t) = n - 1}, x \in S}

Msgs == SeqsUpTo(MsgBytes, MaxMsgLen)

InitMsg ==
    /\ input \in Msgs
    /\ buf = <<>>
    /\ pos = 0
    /\ call = NoCall
    /\ ret = NoneRet

GetMessageTypeCall ==
    /\ call.op = "none"
    /\ ret' = GetMessageTypeByRawHex(input)
    /\ call' = [call EXCEPT !.op = "get_message_type", !.count = 1]
    /\ UNCHANGED <<buf, pos, input>>

StripCall ==
    /\ call.op = "none"
    /\ ret' = StripKnownMessageType(input)
    /\ call' = [call EXCEPT !.op = "strip", !.count = 1]
    /\ UNCHANGED <<buf, pos, input>>

(* The caller strips the result of a successful strip once more *)
StripAgainCall ==
    /\ call.op = "strip"
    /\ ret.kind = "value"
    /\ ret' = StripKnownMessageType(ret.val)
    /\ call' = [call EXCEPT !.op = "strip_again", !.count = 2, !.prev = ret.val]
    /\ UNCHANGED <<buf, pos, input>>

NextMsg == GetMessageTypeCall \/ StripCall \/ StripAgainCall

SpecMsg == InitMsg /\ [][NextMsg]_vars

----------------------------------------------------------------------------
(* Alias decoding *)

MaxAliasLen == 4
ALIAS_LEN == 32

(* bytes.decode("utf-8"), strict: the code points, or a UnicodeDecodeError *)
(* on a stray or missing continuation byte, an overlong form, a surrogate  *)
(* or a value above U+10FFFF.  len = 0 marks an invalid sequence at i.     *)
Utf8Char(bs, i) ==
    LET b0 == bs[i]
        InRange(j, lo, hi) == j <= Len(bs) /\ bs[j] >= lo /\ bs[j] <= hi
        Cont(j) == InRange(j, 128, 191)
        C(j) == bs[j] - 128
        Bad == [len |-> 0, cp |-> 0]
    IN IF b0 < 128 THEN [len |-> 1, cp |-> b0]
       ELSE IF b0 >= 194 /\ b0 <= 223
       THEN IF Cont(i + 1) THEN [len |-> 2, cp |-> (b0 - 192) * 64 + C(i + 1)] ELSE Bad
       ELSE IF b0 >= 224 /\ b0 <= 239
       THEN IF /\ InRange(i + 1, IF b0 = 224 THEN 160 ELSE 128, IF b0 = 237 THEN 159 ELSE 191)
               /\ Cont(i + 2)
            THEN [len |-> 3, cp |-> (b0 - 224) * 4096 + C(i + 1) * 64 + C(i + 2)]
            ELSE Bad
       ELSE IF b0 >= 240 /\ b0 <= 244
       THEN IF /\ InRange(i + 1, IF b0 = 240 THEN 144 ELSE 128, IF b0 = 244 THEN 143 ELSE 191)
               /\ Cont(i + 2)
               /\ Cont(i + 3)
            THEN [len |-> 4,
                  cp |-> (b0 - 240) * 262144 + C(i + 1) * 4096 + C(i + 2) * 64 + C(i + 3)]
            ELSE Bad
       ELSE Bad

RECURSIVE Utf8DecodeFrom(_, _)
Utf8DecodeFrom(bs, i) ==
    IF i > Len(bs) THEN [ok |-> TRUE, text |-> <<>>]
    ELSE LET c == Utf8Char(bs, i)
         IN IF c.len = 0 THEN [ok |-> FALSE, text |-> <<>>]
            ELSE LET rest == Utf8DecodeFrom(bs, i + c.len)
                 IN IF rest.ok THEN [ok |-> TRUE, text |-> <<c.cp>> \o rest.text]
                    ELSE [ok |-> FALSE, text |-> <<>>]

Utf8Decode(bs) == Utf8DecodeFrom(bs, 1)

(* s.strip(ch) with a single character (or byte) ch: ch removed from both  *)
(* ends of s.                                                              *)
RStripOnly(s, ch) ==
    LET keep == {i \in 1..Len(s) : s[i] # ch}
    IN IF keep = {} THEN <<>>
       ELSE SubSeq(s, 1, CHOOSE i \in keep : \A j \in keep : j <= i)

Strip(s, ch) ==
    LET keep == {i \in 1..Len(s) : s[i] # ch}
    IN IF keep = {} THEN <<>>
       ELSE SubSeq(s, CHOOSE i \in keep : \A j \in keep : i <= j,
                      CHOOSE i \in keep : \A j \in keep : j <= i)

(* str.upper() on ASCII text *)
Upper(s) == [i \in 1..Len(s) |-> IF s[i] >= 97 /\ s[i] <= 122 THEN s[i] - 32 ELSE s[i]]

(* encodings.punycode: T, adapt, decode_generalized_number, insertion_sort *)
PunyT(j, bias) ==
    LET res == 36 * (j + 1) - bias
    IN IF res < 1 THEN 1 ELSE IF res > 26 THEN 26 ELSE res

RECURSIVE PunyAdaptLoop(_, _)
PunyAdaptLoop(delta, divisions) ==
    IF delta > 455 THEN PunyAdaptLoop(delta \div 35, divisions + 36)
    ELSE divisions + ((36 * delta) \div (delta + 38))

PunyAdapt(delta, first, numchars) ==
    LET d1 == IF first THEN delta \div 700 ELSE delta \div 2
        d2 == d1 + (d1 \div numchars)
    IN PunyAdaptLoop(d2, 0)

(* [ok, pos, result]: not ok is the UnicodeError of errors="strict" *)
RECURSIVE PunyNumber(_, _, _, _, _, _)
PunyNumber(extended, extpos, bias, result, w, j) ==
    IF extpos > Len(extended) THEN [ok |-> FALSE, pos |-> extpos, result |-> 0]
    ELSE LET char == extended[extpos]
             digit == IF char >= 65 /\ char <= 90 THEN char - 65
                      ELSE IF char >= 48 /\ char <= 57 THEN char - 22
                      ELSE -1
             t == PunyT(j, bias)
         IN IF digit < 0 THEN [ok |-> FALSE, pos |-> extpos, result |-> 0]
            ELSE IF digit < t THEN [ok |-> TRUE, pos |-> extpos + 1, result |-> result + digit * w]
            ELSE PunyNumber(extended, extpos + 1, bias, result + digit * w, w * (36 - t), j + 1)

RECURSIVE PunyInsertionSort(_, _, _, _, _, _)
PunyInsertionSort(base, extended, char, p, bias, extpos) ==
    IF extpos > Len(extended) THEN [ok |-> TRUE, text |-> base]
    ELSE LET g == PunyNumber(extended, extpos, bias, 0, 1, 0)
         IN IF ~g.ok THEN [ok |-> FALSE, text |-> <<>>]
            ELSE LET p1 == p + g.result + 1
                     char1 == char + (p1 \div (Len(base) + 1))
                     p2 == p1 % (Len(base) + 1)
                     base1 == SubSeq(base, 1, p2) \o <<char1>> \o SubSeq(base, p2 + 1, Len(base))
                 IN IF char1 > 1114111 THEN [ok |-> FALSE, text |-> <<>>]
                    ELSE PunyInsertionSort(base1, extended, char1, p2,
                                           PunyAdapt(g.result, extpos = 1, Len(base1)), g.pos)

(* codecs.decode(text, "punycode"): the part before the last "-" and the   *)
(* part after it are decoded as ASCII (strict), then the insertion sort.   *)
PunycodeDecode(text) ==
    LET dashes == {i \in 1..Len(text) : text[i] = 45}
        at == IF dashes = {} THEN 0 ELSE CHOOSE i \in dashes : \A j \in dashes : j <= i
        base == IF at = 0 THEN [ok |-> TRUE, text |-> <<>>]
                ELSE AsciiDecode(SubSeq(text, 1, at - 1))
        extended == AsciiDecode(SubSeq(text, at + 1, Len(text)))
    IN IF ~base.ok \/ ~extended.ok THEN [ok |-> FALSE, text |-> <<>>]
       ELSE PunyInsertionSort(base.text, Upper(extended.text), 128, -1, 72, 1)

(* bytes.hex(): two lowercase hex digits per byte *)
RECURSIVE BytesHex(_)
BytesHex(bs) ==
    IF bs = <<>> THEN <<>>
    ELSE <<HexDigit(bs[1] \div 16), HexDigit(bs[1] % 16)>> \o BytesHex(Tail(bs))

(* The last resort of decode_alias *)
HexFallbackOfCleaned(alias_bytes, cleaned) == Value(BytesHex(cleaned))

HexFallback(alias_bytes, cleaned) == Value(BytesHex(alias_bytes))

(* decode_alias(alias_bytes) *)
DecodeAlias(alias_bytes) ==
    LET u == Utf8Decode(alias_bytes)
    IN IF u.ok THEN Value(Strip(u.text, 0))
       ELSE LET cleaned == Strip(alias_bytes, 0)
                q == PunycodeDecode(cleaned)
            IN IF q.ok THEN Value(q.text) ELSE HexFallback(alias_bytes, cleaned)

AliasBytes == {0, 65, 128, 195, 224, 226, 241, 255}
PadBytes == {0, 255}

Aliases ==
    {c \o Rep(pad, ALIAS_LEN - Len(c)) : c \in SeqsUpTo(AliasBytes, MaxAliasLen), pad \in PadBytes}

InitAlias ==
    /\ input \in Aliases
    /\ buf = <<>>
    /\ pos = 0
    /\ call = NoCall
    /\ ret = NoneRet

DecodeAliasCall ==
    /\ call.op = "none"
    /\ ret' = DecodeAlias(input)
    /\ call' = [call EXCEPT !.op = "decode_alias", !.count = 1]
    /\ UNCHANGED <<buf, pos, input>>

NextAlias == DecodeAliasCall

SpecAlias == InitAlias /\ [][NextAlias]_vars

----------------------------------------------------------------------------
(* Short channel id.  A Python int is its binary digits, least significant *)
(* first; the function is handed a 64-bit value.                           *)

SCID_BITS == 64

(* x >> k *)
Shr(x, k) == SubSeq(x, k + 1, Len(x))

(* x & (2^k - 1) *)
AndLowMask(x, k) == SubSeq(x, 1, Min(k, Len(x)))

(* The value of a binary digit sequence below 2^31 *)
RECURSIVE IntOf(_)
IntOf(x) == IF x = <<>> THEN 0 ELSE x[1] + 2 * IntOf(Tail(x))

(* get_scid_from_int(scid_int) *)
GetScidNarrowTx(scid_int) ==
    LET block == IntOf(AndLowMask(Shr(scid_int, 40), 24))
        txindex == IntOf(AndLowMask(Shr(scid_int, 16), 16))
        output == IntOf(AndLowMask(scid_int, 16))
    IN Value(DecStr(block) \o <<120>> \o DecStr(txindex) \o <<120>> \o DecStr(output))

GetScidFromInt(scid_int) ==
    LET block == IntOf(AndLowMask(Shr(scid_int, 40), 24))
        txindex == IntOf(AndLowMask(Shr(scid_int, 16), 24))
        output == IntOf(AndLowMask(scid_int, 16))
    IN Value(DecStr(block) \o <<120>> \o DecStr(txindex) \o <<120>> \o DecStr(output))

(* The binary digits of n, w of them *)
BitsOf(n, w) == [i \in 1..w |-> (n \div Pow2(i - 1)) % 2]

ScidByteVals == {0, 1, 255}

(* 64-bit values given by their eight bytes, most significant first *)
Scids ==
    { BitsOf(b[8], 8) \o BitsOf(b[7], 8) \o BitsOf(b[6], 8) \o BitsOf(b[5], 8)
        \o BitsOf(b[4], 8) \o BitsOf(b[3], 8) \o BitsOf(b[2], 8) \o BitsOf(b[1], 8) :
        b \in [1..(SCID_BITS \div 8) -> ScidByteVals] }

InitScid ==
    /\ input \in Scids
    /\ buf = <<>>
    /\ pos = 0
    /\ call = NoCall
    /\ ret = NoneRet

GetScidFromIntCall ==
    /\ call.op = "none"
    /\ ret' = GetScidFromInt(input)
    /\ call' = [call EXCEPT !.op = "get_scid_from_int", !.count = 1]
    /\ UNCHANGED <<buf, pos, input>>

NextScid == GetScidFromIntCall

SpecScid == InitScid /\ [][NextScid]_vars

----------------------------------------------------------------------------
(* Properties of parse_address and read_exact, under Spec *)

Remaining == Len(buf) - call.pos_before

TypeByteAt == buf[call.pos_before + 1]

PayloadLen(t) ==
    CASE t = 1 -> IPV4_LEN
      [] t = 2 -> IPV6_LEN
      [] t = 3 -> TORV2_LEN
      [] t = 4 -> TORV3_LEN

(* The length of the record at pos_before, when enough of it is there to tell *)
RecordLen ==
    IF TypeByteAt = 5 THEN 1 + 1 + buf[call.pos_before + 2] + PORT_LEN
    ELSE 1 + PayloadLen(TypeByteAt) + PORT_LEN

LengthKnown == Remaining >= 1 /\ TypeByteAt \in 1..5 /\ (TypeByteAt = 5 => Remaining >= 2)

Truncated == Remaining = 0 \/ (Remaining >= 1 /\ TypeByteAt \in 1..5 /\ (LengthKnown => Remaining < RecordLen))

Complete == LengthKnown /\ Remaining >= RecordLen

HostnameAscii ==
    TypeByteAt = 5 => \A i \in 1..buf[call.pos_before + 2] : buf[call.pos_before + 2 + i] < 128

(* C1: on an empty remaining buffer, or a record of a known type 1..5 cut  *)
(* short anywhere after its type byte, parse_address returns None, raises  *)
(* nothing, and leaves the position where it was at entry.                 *)
C1_TruncatedRollsBack ==
    (call.op = "parse_address" /\ Truncated) => (ret.kind = "none" /\ pos = call.pos_before)

(* A DNS record cut inside its port, parsed from a position past the start *)
C1_Witness ==
    /\ call.op = "parse_address"
    /\ call.pos_before = 1
    /\ Remaining = 5
    /\ TypeByteAt = 5
    /\ buf[call.pos_before + 2] = 2
    /\ ret.kind = "none"
    /\ pos = 1

(* C2: on a type byte outside 1..5 parse_address returns None and the      *)
(* position is the one recorded at entry (the type byte is not consumed).  *)
C2_UnknownTypeRestored ==
    (call.op = "parse_address" /\ Remaining >= 1 /\ TypeByteAt \notin 1..5)
        => (ret.kind = "none" /\ pos = call.pos_before)

(* C3 as stated: on a complete record of kind 1..5 parse_address returns   *)
(* an Address of that kind with the big-endian port of the record's last   *)
(* two bytes and advances by exactly the record length.                    *)
C3_CompleteParsed ==
    (call.op = "parse_address" /\ Complete)
        => /\ ret.kind = "value"
           /\ ret.val.typ.id = TypeByteAt
           /\ ret.val.port = buf[call.pos_before + RecordLen - 1] * 256
                             + buf[call.pos_before + RecordLen]
           /\ pos = call.pos_before + RecordLen

(* C3 amended: the same, for a DNS record only when every hostname byte is *)
(* ASCII; a complete DNS record with a hostname byte of 0x80 or more gives *)
(* None and the position of entry.                                         *)
C3_CompleteAsciiParsed ==
    (call.op = "parse_address" /\ Complete)
        => IF HostnameAscii
           THEN /\ ret.kind = "value"
                /\ ret.val.typ.id = TypeByteAt
                /\ ret.val.port = buf[call.pos_before + RecordLen - 1] * 256
                                  + buf[call.pos_before + RecordLen]
                /\ pos = call.pos_before + RecordLen
           ELSE ret.kind = "none" /\ pos = call.pos_before

(* A complete DNS record with a 2-byte ASCII hostname and port 0x0102,     *)
(* with a byte before it and a byte after it.                              *)
C3_Witness ==
    /\ call.op = "parse_address"
    /\ call.pos_before = 1
    /\ buf = <<97, 5, 2, 97, 97, 1, 2, 97>>
    /\ ret.kind = "value"
    /\ ret.val.port = 258
    /\ ret.val.typ.id = 5
    /\ pos = 7

(* C8: read_exact(b, n) with fewer than n bytes remaining raises and       *)
(* leaves the position as before the call; with n or more it returns       *)
(* those n bytes and advances by n.                                        *)
C8_ReadExactAtomic ==
    call.op = "read_exact"
        => IF Remaining < call.n
           THEN ret.kind = "raise" /\ pos = call.pos_before
           ELSE /\ ret.kind = "value"
                /\ ret.val = SubSeq(buf, call.pos_before + 1, call.pos_before + call.n)
                /\ pos = call.pos_before + call.n

----------------------------------------------------------------------------
(* Properties of the message type functions, under SpecMsg *)

KnownTypes == LIGHTNING_TYPES \cup CORE_LIGHTNING_TYPES

Prefix16(d) == d[1] * 256 + d[2]

(* C6: get_message_type_by_raw_hex raises exactly when the buffer has      *)
(* fewer than 2 bytes; otherwise it returns the big-endian value of the    *)
(* first two bytes when that is a known type, and None when it is not.     *)
C6_MessageType ==
    call.op = "get_message_type"
        => /\ (ret.kind = "raise") <=> (Len(input) < 2)
           /\ Len(input) >= 2
                => IF Prefix16(input) \in KnownTypes
                   THEN ret.kind = "value" /\ ret.val = Prefix16(input)
                   ELSE ret.kind = "none"

(* A Core Lightning type followed by more bytes *)
C6_Witness ==
    /\ call.op = "get_message_type"
    /\ input = <<16, 1, 255, 0>>
    /\ ret.kind = "value"
    /\ ret.val = 4097

(* C7: strip_known_message_type raises on fewer than 2 bytes; otherwise it *)
(* returns the buffer without its first 2 bytes when they spell a known    *)
(* type, and the buffer unchanged when they do not.                        *)
C7_Strip ==
    call.op = "strip"
        => IF Len(input) < 2 THEN ret.kind = "raise"
           ELSE /\ ret.kind = "value"
                /\ IF Prefix16(input) \in KnownTypes
                   THEN /\ Len(ret.val) = Len(input) - 2
                        /\ \A i \in 1..Len(ret.val) : ret.val[i] = input[i + 2]
                   ELSE ret.val = input

C7_Witness ==
    /\ call.op = "strip"
    /\ input = <<16, 0, 255, 1, 2>>
    /\ ret.kind = "value"
    /\ ret.val = <<255, 1, 2>>

(* C9 as stated: stripping the result of a successful strip once more,     *)
(* when that succeeds too, gives the same result.                          *)
C9_StripIdempotent ==
    (call.op = "strip_again" /\ ret.kind = "value") => ret.val = call.prev

(* C9 amended: stripping the result of a successful strip once more gives  *)
(* the same result when that result has 2 or more bytes and does not begin *)
(* with a known type value.                                                *)
C9_StripIdempotentUnlessKnown ==
    (call.op = "strip_again" /\ Len(call.prev) >= 2 /\ Prefix16(call.prev) \notin KnownTypes)
        => (ret.kind = "value" /\ ret.val = call.prev)

(* A known prefix was stripped, and stripping again changes nothing *)
C9_Witness ==
    /\ call.op = "strip_again"
    /\ input = <<1, 1, 0, 1, 0>>
    /\ call.prev = <<0, 1, 0>>
    /\ ret.kind = "value"
    /\ ret.val = <<0, 1, 0>>

----------------------------------------------------------------------------
(* Properties of decode_alias, under SpecAlias *)

HexVal(c) == IF c >= 48 /\ c <= 57 THEN c - 48
             ELSE IF c >= 97 /\ c <= 102 THEN c - 87
             ELSE -1

(* C4: decode_alias returns a string for every 32-byte input and never     *)
(* raises: the UTF-8 text when the bytes are valid UTF-8, else the         *)
(* Punycode text of the NUL-stripped bytes when that decodes, else the 64  *)
(* lowercase hex digits of the original 32 bytes.                          *)
C4_DecodeAliasTotal ==
    call.op = "decode_alias"
        => /\ ret.kind = "value"
           /\ LET u == Utf8Decode(input)
                  q == PunycodeDecode(Strip(input, 0))
              IN IF u.ok THEN ret.val = Strip(u.text, 0)
                 ELSE IF q.ok THEN ret.val = q.text
                 ELSE /\ Len(ret.val) = 2 * ALIAS_LEN
                      /\ \A i \in 1..ALIAS_LEN :
                            /\ HexVal(ret.val[2 * i - 1]) >= 0
                            /\ HexVal(ret.val[2 * i]) >= 0
                            /\ HexVal(ret.val[2 * i - 1]) * 16 + HexVal(ret.val[2 * i]) = input[i]

(* The all-0xFF alias comes back as 64 times "f" *)
C4_Witness ==
    /\ call.op = "decode_alias"
    /\ input = Rep(255, ALIAS_LEN)
    /\ ret.kind = "value"
    /\ ret.val = Rep(102, 2 * ALIAS_LEN)

(* C10 as stated: for valid UTF-8 the result is the decoded text up to and *)
(* including its last non-NUL character, leading NULs kept.                *)
C10_TrailingNulOnly ==
    (call.op = "decode_alias" /\ Utf8Decode(input).ok)
        => LET t == Utf8Decode(input).text
           IN /\ ret.kind = "value"
              /\ \E k \in 0..Len(t) :
                    /\ ret.val = SubSeq(t, 1, k)
                    /\ k = 0 \/ t[k] # 0
                    /\ \A j \in (k + 1)..Len(t) : t[j] = 0

(* C10 amended: for valid UTF-8 the result is the decoded text from its    *)
(* first to its last non-NUL character: NULs at both ends are removed,     *)
(* NULs in between are kept; it is empty for an all-zero alias.            *)
C10_BothEndsNul ==
    (call.op = "decode_alias" /\ Utf8Decode(input).ok)
        => LET t == Utf8Decode(input).text
           IN /\ ret.kind = "value"
              /\ \E a \in 1..(Len(t) + 1) : \E k \in 0..Len(t) :
                    /\ ret.val = SubSeq(t, a, k)
                    /\ \A j \in 1..(a - 1) : t[j] = 0
                    /\ \A j \in (k + 1)..Len(t) : t[j] = 0
                    /\ a > k \/ (t[a] # 0 /\ t[k] # 0)

(* NUL, "A", NUL, "A", then padding: the result keeps only the inner NUL *)
C10_Witness ==
    /\ call.op = "decode_alias"
    /\ input = <<0, 65, 0, 65>> \o Rep(0, ALIAS_LEN - 4)
    /\ ret.kind = "value"
    /\ ret.val = <<65, 0, 65>>

----------------------------------------------------------------------------
(* Properties of get_scid_from_int, under SpecScid *)

(* The value of a string of decimal digits *)
RECURSIVE DecVal(_)
DecVal(s) == IF s = <<>> THEN 0 ELSE 10 * DecVal(SubSeq(s, 1, Len(s) - 1)) + (s[Len(s)] - 48)

IsDecimal(s) == Len(s) >= 1 /\ Len(s) <= 8 /\ \A i \in 1..Len(s) : s[i] >= 48 /\ s[i] <= 57

(* C5: the returned string is "{block}x{txindex}x{output}" with the three  *)
(* fields the bits 40..63, 16..39 and 0..15 of scid; block and txindex are *)
(* below 2^24, output below 2^16, and the fields read back from the string *)
(* and repacked (block at bit 40, txindex at bit 16, output at bit 0) are  *)
(* the original 64-bit scid.                                               *)
C5_ScidRoundTrip ==
    call.op = "get_scid_from_int"
        => /\ ret.kind = "value"
           /\ LET xs == {i \in 1..Len(ret.val) : ret.val[i] = 120}
              IN /\ Cardinality(xs) = 2
                 /\ LET x1 == CHOOSE i \in xs : \A j \in xs : i <= j
                        x2 == CHOOSE i \in xs : \A j \in xs : j <= i
                        bs == SubSeq(ret.val, 1, x1 - 1)
                        ts == SubSeq(ret.val, x1 + 1, x2 - 1)
                        os == SubSeq(ret.val, x2 + 1, Len(ret.val))
                    IN /\ IsDecimal(bs) /\ IsDecimal(ts) /\ IsDecimal(os)
                       /\ DecVal(bs) < 16777216
                       /\ DecVal(ts) < 16777216
                       /\ DecVal(os) < 65536
                       /\ DecVal(bs) = IntOf(SubSeq(input, 41, 64))
                       /\ DecVal(ts) = IntOf(SubSeq(input, 17, 40))
                       /\ DecVal(os) = IntOf(SubSeq(input, 1, 16))
                       /\ BitsOf(DecVal(os), 16) \o BitsOf(DecVal(ts), 24) \o BitsOf(DecVal(bs), 24)
                            = input

(* scid 0x0001FF_0100FF_FF01 is "511x65791x65281" *)
C5_Witness ==
    /\ call.op = "get_scid_from_int"
    /\ IntOf(SubSeq(input, 41, 64)) = 511
    /\ IntOf(SubSeq(input, 17, 40)) = 65791
    /\ IntOf(SubSeq(input, 1, 16)) = 65281
    /\ ret.kind = "value"
    /\ ret.val = <<53, 49, 49, 120, 54, 53, 55, 57, 49, 120, 54, 53, 50, 56, 49>>

====
